---- MODULE Spec2Model ----
(***************************************************************************)
(* Model of the document-extraction worker: the RunPod job handler of      *)
(* worker.py (validate_input, decode_base64_files, call_gradio_api,        *)
(* cleanup_temp_files, handler) and the page pipeline of                   *)
(* docstrange/processors/pdf_processor.py (PDFProcessor._process_with_ocr).*)
(*                                                                         *)
(* Python values are tagged records [t, v]: t is the Python type, v the    *)
(* payload (a sequence; <<>> when the type carries none).  Strings are     *)
(* sequences of one-character tokens; the marker "base64," is one token.   *)
(***************************************************************************)
EXTENDS Integers, Sequences, FiniteSets, TLC

VARIABLES
    job_input,        \* handler: job.get("input", {})
    pc,               \* handler: position in handler()
    validated_input,  \* handler: value returned by validate_input
    temp_files,       \* handler: local temp_files (list of paths)
    temp_paths,       \* decode_base64_files: local temp_paths
    file_idx,         \* decode_base64_files: 1-based position of the for loop
    fs,               \* the temp directory: set of paths that exist
    staged,           \* history: every temp file created in this invocation
    removed,          \* history: every path os.remove has deleted
    backend_calls,    \* history: number of client.predict calls
    backend_model,    \* history: the model_name handed to client.predict
    val_exc,          \* history: exception class validate_input ended with
    stage_failed,     \* history: index of the document whose staging raised
    result,           \* handler: what handler returned (or let escape)
    v_pc,             \* validate_input alone: "start" / "done"
    v_res,            \* validate_input alone: its outcome
    pages,            \* pdf: per-page behaviour of the rendered document
    pdf_pc,           \* pdf: position in _process_with_ocr
    page_num,         \* pdf: enumerate index (0-based, as in the code)
    all_content,      \* pdf: local all_content
    tmp_images,       \* pdf: page-scoped temp images that exist
    submitted,        \* pdf history: page ordinals handed to the backend
    pdf_result,       \* pdf: what _process_with_ocr returned or raised
    server_process,   \* vllm: self.server_process (0 is None, else a process id)
    procs,            \* vllm: the processes Popen has spawned, by process id
    sigterms,         \* vllm history: number of SIGTERMs delivered
    m_pc,             \* vllm: position of the calling thread
    bg_pending,       \* vllm: start_server threads that have not reached Popen
    elapsed,          \* vllm: time.time() - start_time of wait_for_server
    w_result,         \* vllm: how the last wait_for_server ended
    last_get,         \* vllm: the health GET of the last poll cycle
    calls,            \* vllm history: number of calls made on the handle
    stops_on_stopped, \* vllm history: stop_server calls on a stopped handle
    g_pc,             \* worker main: position in __main__ and wait_for_gradio
    g_i,              \* worker main: the loop index i of wait_for_gradio
    GRADIO_PROCESS,   \* worker main: the global process handle and its process
    ext_up,           \* worker main: a Gradio app started outside answers
    g_get,            \* worker main: the last answer of the health URL
    g_ret,            \* worker main: what wait_for_gradio returned
    g_exc,            \* worker main: what wait_for_gradio raised
    handler_started,  \* worker main: runpod.serverless.start was reached
    g_spawns,         \* worker main history: calls of start_gradio_process
    c_fs,             \* concurrent handlers: the files of the temp directory
    c_pc,             \* concurrent handlers: position of each invocation
    c_left,           \* concurrent handlers: files each has still to stage
    c_files,          \* concurrent handlers: temp_files of each invocation
    c_idx,            \* concurrent handlers: position of each cleanup loop
    c_made,           \* history: the existing files each invocation created
    c_staged,         \* history: the paths each invocation has staged
    c_foreign,        \* history: deletions of a file another invocation staged
    k_pc,             \* cleanup: position in the finally block of handler
    k_paths,          \* cleanup: temp_files, the paths handed to cleanup_temp_files
    k_idx,            \* cleanup: position of the loop over the paths
    k_fs,             \* cleanup: the files that exist
    k_locked,         \* cleanup: the files os.remove fails on
    k_primary,        \* cleanup: the envelope built by the try/except of handler
    k_outcome,        \* cleanup: what handler ended with
    k_visited,        \* cleanup history: the loop positions that were handled
    k_warnings,       \* cleanup history: number of logged cleanup failures
    d_pc,             \* decode: position
    d_filename,       \* decode: the 'filename' of the entry
    d_prefix,         \* decode: the text in front of "base64," in the data URI
    d_payload,        \* decode: the base64 payload X
    d_plain,          \* decode: the outcome for the data X
    d_uri             \* decode: the outcome for the data <prefix>base64,X

handler_vars == <<job_input, pc, validated_input, temp_files, temp_paths, file_idx,
                  fs, staged, removed, backend_calls, backend_model, val_exc, stage_failed,
                  result>>

validate_vars == <<v_pc, v_res>>

pdf_vars == <<pages, pdf_pc, page_num, all_content, tmp_images, submitted, pdf_result>>

vllm_vars == <<server_process, procs, sigterms, m_pc, bg_pending, elapsed, w_result,
               last_get, calls, stops_on_stopped>>

gradio_vars == <<g_pc, g_i, GRADIO_PROCESS, ext_up, g_get, g_ret, g_exc, handler_started, g_spawns>>

conc_vars == <<c_fs, c_pc, c_left, c_files, c_idx, c_made, c_staged, c_foreign>>

cleanup_vars == <<k_pc, k_paths, k_idx, k_fs, k_locked, k_primary, k_outcome, k_visited,
                  k_warnings>>

decode_vars == <<d_pc, d_filename, d_prefix, d_payload, d_plain, d_uri>>

vars == <<handler_vars, validate_vars, pdf_vars, vllm_vars, gradio_vars, conc_vars,
          cleanup_vars, decode_vars>>

----------------------------------------------------------------------------
(* Bounds *)

MaxFiles == 2

MaxSpecs == 2

MaxPages == 3

\* calls a client makes on one VLLMServer handle
MaxCalls == 3

\* the timeout handed to wait_for_server, in seconds
VllmTimeout == 4

\* the longest a health GET takes to answer, in seconds (line 112 sets no
\* timeout on the request)
MaxGetTime == 2

\* characters of a base64 payload
MaxPayload == 4

----------------------------------------------------------------------------
(* Python values *)

Absent == [t |-> "absent", v |-> <<>>]

PyNone == [t |-> "none", v |-> <<>>]

PyInt == [t |-> "int", v |-> <<>>]

PyStr(s) == [t |-> "str", v |-> s]

PyList(s) == [t |-> "list", v |-> s]

\* dict.get(key, default) on a key that may be missing
Get(x, default) == IF x.t = "absent" THEN default ELSE x

\* len() is defined on lists and strings; on None or a number it raises TypeError
Sized(x) == x.t \in {"list", "str"}

\* all sequences over S of length at most n
SeqUpTo(S, n) == UNION {[1..k -> S] : k \in 0..n}

\* an element of a 'fields' or 'tables' list: a dict (with or without the
\* key 'name') or something that is not a dict
SpecDict(name) == [t |-> "dict", has_name |-> TRUE, name |-> name]

SpecNoName == [t |-> "dict", has_name |-> FALSE, name |-> ""]

SpecNotDict == [t |-> "str", has_name |-> FALSE, name |-> ""]

\* what iterating a value yields: the elements of a list, the characters of a string
Elems(x) == IF x.t = "list" THEN x.v ELSE [i \in 1..Len(x.v) |-> SpecNotDict]

Err(text, idx) == [text |-> text, idx |-> idx, doc |-> 0]

----------------------------------------------------------------------------
(* validate_input *)

Default_model_name == "hosted_vllm/MODEL_NAME"

FilesErrors(job) ==
    IF job.files.t = "absent" THEN <<Err("Missing required field: 'files'", -1)>>
    ELSE IF job.files.t # "list" THEN <<Err("'files' must be a list", -1)>>
    ELSE IF Len(job.files.v) = 0 THEN <<Err("'files' list cannot be empty", -1)>>
    ELSE <<>>

TypeErrors(fields, tables) ==
    (IF fields.t # "list" THEN <<Err("'fields' must be a list", -1)>> ELSE <<>>)
    \o (IF tables.t # "list" THEN <<Err("'tables' must be a list", -1)>> ELSE <<>>)

RECURSIVE EntryErrors(_, _, _)
\* the loop `for i, x in enumerate(xs)` of lines 273-277 / 280-284, from index i
EntryErrors(kind, xs, i) ==
    IF i > Len(xs) THEN <<>>
    ELSE (IF xs[i].t # "dict" THEN <<Err(kind \o " must be a dictionary", i - 1)>>
          ELSE IF ~xs[i].has_name THEN <<Err(kind \o " missing required 'name' property", i - 1)>>
          ELSE <<>>)
         \o EntryErrors(kind, xs, i + 1)

Returned(val) == [exc |-> "none", errors |-> <<>>, value |-> val]

Raised(exc, errors) == [exc |-> exc, errors |-> errors, value |-> Absent]

\* a fail-fast validator: once a violation is recorded nothing is added to it
KeepFirst(errors, more) == IF errors # <<>> THEN errors ELSE more

\* errors.append(...): the violations found so far, followed by the new ones
Accumulate(errors, more) == errors \o more

validate_input(job) ==
    LET fields == Get(job.fields, PyList(<<>>))
        tables == Get(job.tables, PyList(<<>>))
        e1 == Accumulate(FilesErrors(job), TypeErrors(fields, tables))
    IN  \* len(fields) == 0 and len(tables) == 0, left to right, short-circuit
        IF ~Sized(fields) THEN Raised("TypeError", <<Err("object has no len()", -1)>>)
        ELSE IF Len(fields.v) = 0 /\ ~Sized(tables)
             THEN Raised("TypeError", <<Err("object has no len()", -1)>>)
        ELSE LET e2 == IF Len(fields.v) = 0 /\ Len(tables.v) = 0
                       THEN Accumulate(e1, <<Err("At least one field or table must be specified", -1)>>)
                       ELSE e1
                 e3 == Accumulate(e2, EntryErrors("Field", Elems(fields), 1))
             IN  IF ~Sized(tables)
                 THEN Raised("TypeError", <<Err("object is not iterable", -1)>>)
                 ELSE LET errors == Accumulate(e3, EntryErrors("Table", Elems(tables), 1))
                      IN  IF errors # <<>> THEN Raised("ValueError", errors)
                          ELSE Returned([files |-> job.files,
                                         fields |-> fields,
                                         tables |-> tables,
                                         model_name |-> Get(job.model_name, PyStr(<<Default_model_name>>))])

----------------------------------------------------------------------------
(* decode_base64_files: the pure parts of one loop iteration *)

B64Alphabet == {"Q", "U", "J", "D", "d", "a", "t"}

RECURSIVE IndexOf(_, _, _)
\* first position >= i of token c in s, or Len(s) + 1
IndexOf(s, c, i) ==
    IF i > Len(s) THEN Len(s) + 1
    ELSE IF s[i] = c THEN i
    ELSE IndexOf(s, c, i + 1)

Contains(s, c) == IndexOf(s, c, 1) <= Len(s)

\* base64_data.split("base64,")[1]: what lies between the first and the
\* second occurrence of the separator
SplitSecond(s) ==
    LET rest == SubSeq(s, IndexOf(s, "base64,", 1) + 1, Len(s))
    IN  SubSeq(rest, 1, IndexOf(rest, "base64,", 1) - 1)

\* a decoder that leaves the data URI prefix in place
keep_data_uri(s) == s

\* lines 181-182
strip_data_uri(s) == IF Contains(s, "base64,") THEN SplitSecond(s) ELSE s

RECURSIVE a2b_base64(_, _, _, _, _)
\* binascii.a2b_base64 in its default non-strict mode, as base64.b64decode
\* calls it: characters outside the alphabet are skipped, a completed pad
\* sequence ends the parse, a dangling quad is an error.  The decoded bytes
\* are represented by the sextets (alphabet characters) they are made of.
a2b_base64(s, i, quad_pos, pads, out) ==
    IF i > Len(s)
    THEN IF quad_pos # 0
         THEN [exc |-> "binascii.Error", bytes |-> <<>>]
         ELSE [exc |-> "none", bytes |-> out]
    ELSE IF s[i] = "="
    THEN IF quad_pos >= 2 /\ quad_pos + pads + 1 >= 4
         THEN [exc |-> "none", bytes |-> out]
         ELSE a2b_base64(s, i + 1, quad_pos, IF quad_pos >= 2 THEN pads + 1 ELSE pads, out)
    ELSE IF s[i] \notin B64Alphabet
    THEN a2b_base64(s, i + 1, quad_pos, pads, out)
    ELSE a2b_base64(s, i + 1, (quad_pos + 1) % 4, 0, Append(out, s[i]))

b64decode(s) == a2b_base64(s, 1, 0, 0, <<>>)

RECURSIVE LastIndexOf(_, _, _)
\* str.rfind, 1-based: last position <= i of token c in s, or 0
LastIndexOf(s, c, i) ==
    IF i = 0 THEN 0
    ELSE IF s[i] = c THEN i
    ELSE LastIndexOf(s, c, i - 1)

\* pathlib's name: the final path component
PathName(f) == SubSeq(f, LastIndexOf(f, "/", Len(f)) + 1, Len(f))

\* pathlib's suffix: name[i:] for i = name.rfind('.') when 0 < i < len(name) - 1
\* (0-based), '' otherwise
PathSuffix(f) ==
    LET name == PathName(f)
        i == LastIndexOf(name, ".", Len(name))
    IN  IF 1 < i /\ i < Len(name) THEN SubSeq(name, i, Len(name)) ELSE <<>>

file_extension(f) == IF Contains(f, ".") THEN PathSuffix(f) ELSE <<".", "p", "d", "f">>

Decoded(bytes, ext) == [exc |-> "none", msg |-> <<>>, bytes |-> bytes, ext |-> ext]

DecodeFailed(exc, text) == [exc |-> exc, msg |-> <<Err(text, -1)>>, bytes |-> <<>>, ext |-> <<>>]

\* lines 177-188 for one file_info; the except clause of 202-204 logs the
\* file name and re-raises the exception unchanged
decode_one(file_info) ==
    IF file_info.t # "dict"
    THEN DecodeFailed("AttributeError", "object has no attribute 'get'")
    ELSE LET filename == Get(file_info.filename, PyStr(<<"d", "o", "c">>))
             data == Get(file_info.data, PyStr(<<>>))
         IN  IF data.t # "str"
             THEN DecodeFailed("TypeError", "argument is not iterable")
             ELSE LET d == b64decode(strip_data_uri(data.v))
                  IN  IF d.exc # "none" THEN DecodeFailed(d.exc, "Invalid base64-encoded string")
                      ELSE IF filename.t # "str"
                      THEN DecodeFailed("TypeError", "argument is not iterable")
                      ELSE Decoded(d.bytes, file_extension(filename.v))

----------------------------------------------------------------------------
(* exceptions and response envelopes *)

\* the classes an exception is an instance of
Mro(exc) ==
    CASE exc = "binascii.Error" -> {"binascii.Error", "ValueError", "Exception"}
      [] exc = "Exception" -> {"Exception"}
      [] OTHER -> {exc, "Exception"}

\* a handler whose only except clause is `except ValueError`
CatchOnlyValueError(exc) ==
    IF "ValueError" \in Mro(exc) THEN "validation_error" ELSE "escape"

\* a handler whose `except Exception` clause comes first and takes everything
CatchAllAsProcessing(exc) ==
    IF "Exception" \in Mro(exc) THEN "processing_error" ELSE "escape"

\* which except clause of handler takes the exception (lines 465, 474)
Catch(exc) ==
    IF "ValueError" \in Mro(exc) THEN "validation_error"
    ELSE IF "Exception" \in Mro(exc) THEN "processing_error"
    ELSE "escape"

NoMetadata == [num_documents |-> 0, num_fields |-> 0, num_tables |-> 0, model_used |-> Absent]

NoResult ==
    [kind |-> "none", keys |-> {}, success |-> FALSE, error |-> <<>>, error_type |-> "",
     fields |-> <<>>, tables |-> <<>>, metadata |-> NoMetadata]

\* an envelope whose counts are those of the rows the backend returned
EnvelopeCountingRows(fields_result, tables_result, files, validated) ==
    [kind |-> "return", keys |-> {"success", "fields", "tables", "metadata"},
     success |-> TRUE, error |-> <<>>, error_type |-> "",
     fields |-> fields_result, tables |-> tables_result,
     metadata |-> [num_documents |-> Len(files),
                   num_fields |-> Len(fields_result),
                   num_tables |-> Len(tables_result),
                   model_used |-> validated.model_name]]

\* lines 453-463
SuccessEnvelope(fields_result, tables_result, files, validated) ==
    [kind |-> "return", keys |-> {"success", "fields", "tables", "metadata"},
     success |-> TRUE, error |-> <<>>, error_type |-> "",
     fields |-> fields_result, tables |-> tables_result,
     metadata |-> [num_documents |-> Len(files),
                   num_fields |-> Len(validated.fields.v),
                   num_tables |-> Len(validated.tables.v),
                   model_used |-> validated.model_name]]

\* what handler ends with when exc is raised inside its try block
ErrorEnvelope(exc, msg) ==
    IF Catch(exc) = "escape"
    THEN [NoResult EXCEPT !.kind = "raise", !.error = msg]
    ELSE [NoResult EXCEPT !.kind = "return",
                          !.keys = {"success", "error", "error_type"}
                                   \cup (IF Catch(exc) = "processing_error" THEN {"traceback"} ELSE {}),
                          !.error = msg,
                          !.error_type = Catch(exc)]

----------------------------------------------------------------------------
(* the requests the handler is driven with *)

FileNames == {Absent, PyStr(<<"a", ".", "p", "d", "f">>)}

DataValues ==
    {Absent, PyInt,
     PyStr(<<"Q", "U", "J", "D">>),
     PyStr(<<"Q">>),
     PyStr(<<"d", ":", "base64,", "Q", "U", "J", "D">>)}

FileEntries ==
    {[t |-> "none", filename |-> Absent, data |-> Absent]}
    \cup {[t |-> "dict", filename |-> f, data |-> d] : f \in FileNames, d \in DataValues}

FilesValues == {Absent, PyNone} \cup {PyList(fl) : fl \in SeqUpTo(FileEntries, MaxFiles)}

HandlerFields == {Absent, PyNone, PyList(<<>>), PyList(<<SpecDict("a"), SpecDict("b")>>)}

HandlerTables == {Absent, PyList(<<>>), PyList(<<SpecDict("t")>>)}

ModelNames == {Absent, PyStr(<<"custom">>)}

\* job.get("input", {}): a dict, or whatever else the job carries under 'input'
JobInputs ==
    {[t |-> "none", files |-> Absent, fields |-> Absent, tables |-> Absent, model_name |-> Absent]}
    \cup {[t |-> "dict", files |-> fl, fields |-> f, tables |-> tb, model_name |-> m] :
             fl \in FilesValues, f \in HandlerFields, tb \in HandlerTables, m \in ModelNames}

\* line 392: the model_name keyword of client.predict
predict_model_name == PyStr(<<Default_model_name>>)

\* what client.predict and the unpacking of its result (lines 390-402) end
\* with: no rows, a row per requested name in the requested order, or rows in
\* an order and under names of the backend's own
BackendReplies(validated) ==
    {[exc |-> "none", fields |-> <<>>, tables |-> <<>>],
     [exc |-> "none", fields |-> <<"b", "a">>, tables |-> <<"other">>],
     [exc |-> "none",
      fields |-> [i \in 1..Len(validated.fields.v) |-> validated.fields.v[i].name],
      tables |-> [i \in 1..Len(validated.tables.v) |-> validated.tables.v[i].name]],
     [exc |-> "Exception", fields |-> <<>>, tables |-> <<>>],
     [exc |-> "ValueError", fields |-> <<>>, tables |-> <<>>]}

----------------------------------------------------------------------------
(* handler *)

HandlerIdle ==
    /\ job_input = [t |-> "none", files |-> Absent, fields |-> Absent, tables |-> Absent,
                    model_name |-> Absent]
    /\ pc = "idle"
    /\ validated_input = Absent
    /\ temp_files = <<>>
    /\ temp_paths = <<>>
    /\ file_idx = 0
    /\ fs = {}
    /\ staged = <<>>
    /\ removed = {}
    /\ backend_calls = 0
    /\ backend_model = Absent
    /\ val_exc = "unset"
    /\ stage_failed = 0
    /\ result = NoResult

HandlerInit ==
    /\ job_input \in JobInputs
    /\ pc = "start"
    /\ validated_input = Absent
    /\ temp_files = <<>>
    /\ temp_paths = <<>>
    /\ file_idx = 0
    /\ fs = {}
    /\ staged = <<>>
    /\ removed = {}
    /\ backend_calls = 0
    /\ backend_model = Absent
    /\ val_exc = "unset"
    /\ stage_failed = 0
    /\ result = NoResult

\* an exception raised inside the try block: the matching except clause
\* builds the envelope, then the finally block runs
Except(exc, msg) ==
    /\ result' = ErrorEnvelope(exc, msg)
    /\ pc' = "finally"

\* lines 428-431: job_input.keys() and validate_input(job_input)
Validate ==
    /\ pc = "start"
    /\ IF job_input.t # "dict"
       THEN /\ Except("AttributeError", <<Err("object has no attribute 'keys'", -1)>>)
            /\ UNCHANGED <<validated_input, val_exc, file_idx>>
       ELSE LET r == validate_input(job_input)
            IN  /\ val_exc' = r.exc
                /\ IF r.exc = "none"
                   THEN /\ validated_input' = r.value
                        /\ file_idx' = 1
                        /\ pc' = "stage"
                        /\ UNCHANGED result
                   ELSE /\ Except(r.exc, r.errors)
                        /\ UNCHANGED <<validated_input, file_idx>>
    /\ UNCHANGED <<job_input, temp_files, temp_paths, fs, staged, removed, backend_calls,
                   backend_model, stage_failed>>

\* tempfile.NamedTemporaryFile(delete=False, suffix=ext): a name no other
\* temp file of this run has
NewTempPath(ext) == [n |-> Len(staged) + 1, ext |-> ext]

\* one iteration of the loop of decode_base64_files (lines 175-204): the
\* file is decoded, written to a new temp file and its path appended, or the
\* exception of the decoding leaves the function with temp_paths dropped
DecodeFile ==
    /\ pc = "stage"
    /\ file_idx <= Len(validated_input.files.v)
    /\ LET d == decode_one(validated_input.files.v[file_idx])
       IN  IF d.exc # "none"
           THEN /\ stage_failed' = file_idx
                /\ Except(d.exc, d.msg)
                /\ UNCHANGED <<fs, staged, temp_paths, file_idx>>
           ELSE LET path == NewTempPath(d.ext)
                IN  /\ fs' = fs \cup {path}
                    /\ staged' = Append(staged, [path |-> path, bytes |-> d.bytes])
                    /\ temp_paths' = Append(temp_paths, path)
                    /\ file_idx' = file_idx + 1
                    /\ UNCHANGED <<pc, result, stage_failed>>
    /\ UNCHANGED <<job_input, validated_input, temp_files, removed, backend_calls,
                   backend_model, val_exc>>

\* line 206 and the assignment of line 434
StageReturn ==
    /\ pc = "stage"
    /\ file_idx > Len(validated_input.files.v)
    /\ temp_files' = temp_paths
    /\ pc' = "invoke"
    /\ UNCHANGED <<job_input, validated_input, temp_paths, file_idx, fs, staged, removed,
                   backend_calls, backend_model, val_exc, stage_failed, result>>

\* lines 439-463: call_gradio_api and the success envelope
Invoke ==
    /\ pc = "invoke"
    /\ backend_calls' = backend_calls + 1
    /\ backend_model' = predict_model_name
    /\ \E reply \in BackendReplies(validated_input) :
          IF reply.exc = "none"
          THEN /\ result' = SuccessEnvelope(reply.fields, reply.tables, temp_files, validated_input)
               /\ pc' = "finally"
          ELSE Except(reply.exc, <<Err("Gradio API call failed", -1)>>)
    /\ UNCHANGED <<job_input, validated_input, temp_files, temp_paths, file_idx, fs, staged,
                   removed, val_exc, stage_failed>>

Range(s) == {s[i] : i \in 1..Len(s)}

\* cleanup_temp_files (lines 209-221): every listed path that exists is
\* removed; the glob for converted images matches nothing, as nothing here
\* creates a '<base>_*.jpg' file
cleanup_temp_files(file_paths) ==
    /\ fs' = fs \ Range(file_paths)
    /\ removed' = removed \cup (fs \cap Range(file_paths))

\* lines 485-489, then handler returns (or the uncaught exception leaves it)
Finally ==
    /\ pc = "finally"
    /\ IF temp_files # <<>>
       THEN cleanup_temp_files(temp_files)
       ELSE UNCHANGED <<fs, removed>>
    /\ pc' = "done"
    /\ UNCHANGED <<job_input, validated_input, temp_files, temp_paths, file_idx, staged,
                   backend_calls, backend_model, val_exc, stage_failed, result>>

ValidateIdle == v_pc = "idle" /\ v_res = Raised("unset", <<>>)

PdfIdle ==
    /\ pages = <<>>
    /\ pdf_pc = "idle"
    /\ page_num = 0
    /\ all_content = <<>>
    /\ tmp_images = {}
    /\ submitted = {}
    /\ pdf_result = [kind |-> "none", content |-> <<>>, pages |-> 0]

VllmIdle ==
    /\ server_process = 0
    /\ procs = <<>>
    /\ sigterms = 0
    /\ m_pc = "off"
    /\ bg_pending = 0
    /\ elapsed = 0
    /\ w_result = "none"
    /\ last_get = "none"
    /\ calls = 0
    /\ stops_on_stopped = 0

\* no process handle: GRADIO_PROCESS is None
NoProcess == [state |-> "none", pipes_held |-> FALSE]

NoException == [type |-> "none", msg |-> "", exit_code |-> FALSE]

GradioIdle ==
    /\ g_pc = "off"
    /\ g_i = 0
    /\ GRADIO_PROCESS = NoProcess
    /\ ext_up = FALSE
    /\ g_get = "none"
    /\ g_ret = "none"
    /\ g_exc = NoException
    /\ handler_started = FALSE
    /\ g_spawns = 0

\* the two invocations of handler
Invocations == {"A", "B"}

ConcIdle ==
    /\ c_fs = {}
    /\ c_pc = [h \in Invocations |-> "off"]
    /\ c_left = [h \in Invocations |-> 0]
    /\ c_files = [h \in Invocations |-> <<>>]
    /\ c_idx = [h \in Invocations |-> 0]
    /\ c_made = [h \in Invocations |-> {}]
    /\ c_staged = [h \in Invocations |-> {}]
    /\ c_foreign = {}

NoOutcome == [kind |-> "none", envelope |-> "none"]

CleanupIdle ==
    /\ k_pc = "off"
    /\ k_paths = <<>>
    /\ k_idx = 0
    /\ k_fs = {}
    /\ k_locked = {}
    /\ k_primary = "none"
    /\ k_outcome = NoOutcome
    /\ k_visited = {}
    /\ k_warnings = 0

NoDecode == [exc |-> "unset", msg |-> <<>>, bytes |-> <<>>, ext |-> <<>>]

DecodeIdle ==
    /\ d_pc = "off"
    /\ d_filename = Absent
    /\ d_prefix = <<>>
    /\ d_payload = <<>>
    /\ d_plain = NoDecode
    /\ d_uri = NoDecode

\* the subsystems no specification but their own moves
Idle == CleanupIdle /\ DecodeIdle

Init == HandlerInit /\ ValidateIdle /\ PdfIdle /\ VllmIdle /\ GradioIdle /\ ConcIdle /\ Idle

Next ==
    \/ Validate /\ UNCHANGED <<validate_vars, pdf_vars, vllm_vars, gradio_vars, conc_vars, cleanup_vars, decode_vars>>
    \/ DecodeFile /\ UNCHANGED <<validate_vars, pdf_vars, vllm_vars, gradio_vars, conc_vars, cleanup_vars, decode_vars>>
    \/ StageReturn /\ UNCHANGED <<validate_vars, pdf_vars, vllm_vars, gradio_vars, conc_vars, cleanup_vars, decode_vars>>
    \/ Invoke /\ UNCHANGED <<validate_vars, pdf_vars, vllm_vars, gradio_vars, conc_vars, cleanup_vars, decode_vars>>
    \/ Finally /\ UNCHANGED <<validate_vars, pdf_vars, vllm_vars, gradio_vars, conc_vars, cleanup_vars, decode_vars>>

Spec == Init /\ [][Next]_vars

----------------------------------------------------------------------------
(* validate_input on its own, over every shape of 'fields' and 'tables' *)

SpecEntries == {SpecNotDict, SpecNoName, SpecDict(""), SpecDict("a"), SpecDict("b")}

SpecValues ==
    {Absent, PyNone, PyStr(<<>>)} \cup {PyList(l) : l \in SeqUpTo(SpecEntries, MaxSpecs)}

OneFile == [t |-> "dict", filename |-> PyStr(<<"a", ".", "p", "d", "f">>),
            data |-> PyStr(<<"Q", "U", "J", "D">>)]

ValidateJobs ==
    {[t |-> "dict", files |-> fl, fields |-> f, tables |-> tb, model_name |-> Absent] :
        fl \in {Absent, PyNone, PyList(<<>>), PyList(<<OneFile>>)},
        f \in SpecValues, tb \in SpecValues}

ValidateInit == job_input \in ValidateJobs /\ v_pc = "start" /\ v_res = Raised("unset", <<>>)

RunValidate ==
    /\ v_pc = "start"
    /\ v_res' = validate_input(job_input)
    /\ v_pc' = "done"

InitValidate ==
    /\ ValidateInit
    /\ pc = "idle"
    /\ validated_input = Absent
    /\ temp_files = <<>>
    /\ temp_paths = <<>>
    /\ file_idx = 0
    /\ fs = {}
    /\ staged = <<>>
    /\ removed = {}
    /\ backend_calls = 0
    /\ backend_model = Absent
    /\ val_exc = "unset"
    /\ stage_failed = 0
    /\ result = NoResult
    /\ PdfIdle
    /\ VllmIdle
    /\ GradioIdle
    /\ ConcIdle
    /\ Idle

NextValidate == RunValidate /\ UNCHANGED <<handler_vars, pdf_vars, vllm_vars, gradio_vars, conc_vars, cleanup_vars, decode_vars>>

SpecValidate == InitValidate /\ [][NextValidate]_vars

----------------------------------------------------------------------------
(* PDFProcessor._process_with_ocr *)

Whitespace == {" ", "\n", "\n\n"}

RECURSIVE LStrip(_)
LStrip(s) == IF s # <<>> /\ Head(s) \in Whitespace THEN LStrip(Tail(s)) ELSE s

RECURSIVE RStrip(_)
RStrip(s) ==
    IF s # <<>> /\ s[Len(s)] \in Whitespace THEN RStrip(SubSeq(s, 1, Len(s) - 1)) ELSE s

\* str.strip()
Strip(s) == RStrip(LStrip(s))

\* f"## Page {n}"
PageMarker(n) == "## Page " \o ToString(n)

EmptyPageText == "*This page appears to be empty or contains no extractable text.*"

NoContentSentinel == "No content extracted from PDF"

\* _format_page_content (lines 219-229); _process_with_ocr does not call it
format_page_content(text, n) ==
    IF Strip(text) = <<>>
    THEN <<"\n", PageMarker(n), "\n\n", EmptyPageText, "\n">>
    ELSE <<PageMarker(n), "\n", "\n">> \o text \o <<"\n">>

RECURSIVE Join(_)
\* "\n\n".join(parts)
Join(parts) ==
    IF parts = <<>> THEN <<>>
    ELSE IF Len(parts) = 1 THEN parts[1]
    ELSE parts[1] \o <<"\n\n">> \o Join(Tail(parts))

\* what the rendering and the backend do with one page: the raster cannot be
\* written, the backend raises, or the backend returns this content
PageKinds ==
    {[save |-> "fail", ocr |-> "ok", content |-> <<>>],
     [save |-> "ok", ocr |-> "fail", content |-> <<>>]}
    \cup {[save |-> "ok", ocr |-> "ok", content |-> c] :
             c \in {<<>>, <<" ", "\n">>, <<"x">>, <<" ", "y", "\n">>}}

NoPdfResult == [kind |-> "none", content |-> <<>>, pages |-> 0]

PdfInit ==
    /\ pages \in SeqUpTo(PageKinds, MaxPages)
    /\ pdf_pc = "start"
    /\ page_num = 0
    /\ all_content = <<>>
    /\ tmp_images = {}
    /\ submitted = {}
    /\ pdf_result = NoPdfResult

\* the except clauses of lines 127-132: whatever was raised leaves as ConversionError
PdfRaise ==
    /\ pdf_result' = [kind |-> "raise", content |-> <<>>, pages |-> 0]
    /\ pdf_pc' = "done"

\* line 93: convert_from_path renders every page, or fails for the whole document
Convert ==
    /\ pdf_pc = "start"
    /\ \/ /\ pdf_pc' = "save"
          /\ UNCHANGED pdf_result
       \/ PdfRaise
    /\ UNCHANGED <<pages, page_num, all_content, tmp_images, submitted>>

\* lines 99-101: the page's raster goes to a temp file of its own
SavePage ==
    /\ pdf_pc = "save"
    /\ page_num < Len(pages)
    /\ tmp_images' = tmp_images \cup {page_num + 1}
    /\ IF pages[page_num + 1].save = "fail"
       THEN PdfRaise
       ELSE pdf_pc' = "ocr" /\ UNCHANGED pdf_result
    /\ UNCHANGED <<pages, page_num, all_content, submitted>>

\* which pages reach all_content (line 108)
KeepPage(page_content) == Strip(page_content) # <<>>

\* lines 103-113: the backend call, the append of a non-empty page, and the
\* unlink of the finally block
ProcessPage ==
    /\ pdf_pc = "ocr"
    /\ submitted' = submitted \cup {page_num + 1}
    /\ tmp_images' = tmp_images \ {page_num + 1}
    /\ IF pages[page_num + 1].ocr = "fail"
       THEN /\ PdfRaise
            /\ UNCHANGED <<page_num, all_content>>
       ELSE LET page_content == pages[page_num + 1].content
            IN  /\ all_content' =
                      IF KeepPage(page_content)
                      THEN Append(all_content, <<PageMarker(page_num + 1), "\n\n">> \o page_content)
                      ELSE all_content
                /\ page_num' = page_num + 1
                /\ pdf_pc' = "save"
                /\ UNCHANGED pdf_result
    /\ UNCHANGED pages

\* an aggregation without the fallback of line 115
JoinOnly(parts) == Join(parts)

\* line 115: the joined pages, or the sentinel when no page was kept
aggregate_content(parts) == IF parts # <<>> THEN Join(parts) ELSE <<NoContentSentinel>>

\* lines 115-125
Aggregate ==
    /\ pdf_pc = "save"
    /\ page_num = Len(pages)
    /\ pdf_result' = [kind |-> "return",
                      content |-> aggregate_content(all_content),
                      pages |-> Len(pages)]
    /\ pdf_pc' = "done"
    /\ UNCHANGED <<pages, page_num, all_content, tmp_images, submitted>>

InitPdf == HandlerIdle /\ ValidateIdle /\ PdfInit /\ VllmIdle /\ GradioIdle /\ ConcIdle /\ Idle

NextPdf ==
    \/ Convert /\ UNCHANGED <<handler_vars, validate_vars, vllm_vars, gradio_vars, conc_vars, cleanup_vars, decode_vars>>
    \/ SavePage /\ UNCHANGED <<handler_vars, validate_vars, vllm_vars, gradio_vars, conc_vars, cleanup_vars, decode_vars>>
    \/ ProcessPage /\ UNCHANGED <<handler_vars, validate_vars, vllm_vars, gradio_vars, conc_vars, cleanup_vars, decode_vars>>
    \/ Aggregate /\ UNCHANGED <<handler_vars, validate_vars, vllm_vars, gradio_vars, conc_vars, cleanup_vars, decode_vars>>

SpecPdf == InitPdf /\ [][NextPdf]_vars

----------------------------------------------------------------------------
(* VLLMServer: start_server, wait_for_server, stop_server, run_in_background *)

\* time.sleep(2) of the poll loop
PollInterval == 2

\* a process as Popen leaves it: still loading the model, serving the health
\* endpoint, or gone; reaped when Popen knows its return code
NewProcess == [state |-> "loading", was_ready |-> FALSE, reaped |-> FALSE]

Pids == 1..Len(procs)

Serving == \E p \in Pids : procs[p].state = "ready"

\* line 103: subprocess.Popen, and the assignment to self.server_process
Popen ==
    /\ procs' = Append(procs, NewProcess)
    /\ server_process' = Len(procs) + 1

\* a terminate that signals whatever pid the handle holds
AlwaysSignals(proc) == TRUE

\* Popen.terminate: the signal is sent only to a process that has not been
\* found dead
SendsSignal(proc) == ~proc.reaped /\ proc.state # "exited"

\* stop_server (lines 126-132): terminate() and wait() on the process of the
\* handle, nothing when the handle holds None
stop_server ==
    IF server_process # 0
    THEN /\ sigterms' = IF SendsSignal(procs[server_process]) THEN sigterms + 1 ELSE sigterms
         /\ procs' = [procs EXCEPT ![server_process].state = "exited",
                                   ![server_process].reaped = TRUE]
    ELSE UNCHANGED <<procs, sigterms>>

\* what the health endpoint can answer at this moment
GetResponses ==
    {"error"}
    \cup (IF Serving THEN {"200"} ELSE {})
    \cup (IF \E p \in Pids : procs[p].state # "exited" THEN {"503"} ELSE {})

\* a poll loop that takes any HTTP answer for readiness
AnyResponse(resp) == resp # "error"

\* line 113: response.status_code == 200
IsReady(resp) == resp = "200"

\* the client calls start_server itself (lines 41-103)
CallStart ==
    /\ m_pc = "idle"
    /\ calls < MaxCalls
    /\ calls' = calls + 1
    /\ Popen
    /\ UNCHANGED <<sigterms, m_pc, bg_pending, elapsed, w_result, last_get, stops_on_stopped>>

\* lines 108-109: wait_for_server is entered
CallWait ==
    /\ m_pc = "idle"
    /\ calls < MaxCalls
    /\ calls' = calls + 1
    /\ elapsed' = 0
    /\ w_result' = "none"
    /\ last_get' = "none"
    /\ m_pc' = "wait_top"
    /\ UNCHANGED <<server_process, procs, sigterms, bg_pending, stops_on_stopped>>

\* the client calls stop_server
CallStop ==
    /\ m_pc = "idle"
    /\ calls < MaxCalls
    /\ calls' = calls + 1
    /\ stop_server
    /\ stops_on_stopped' =
          IF server_process # 0 /\ procs[server_process].reaped
          THEN stops_on_stopped + 1 ELSE stops_on_stopped
    /\ UNCHANGED <<server_process, m_pc, bg_pending, elapsed, w_result, last_get>>

\* run_in_background (lines 136-138): the thread is started and the caller
\* enters wait_for_server
CallRunInBackground ==
    /\ m_pc = "idle"
    /\ calls < MaxCalls
    /\ calls' = calls + 1
    /\ bg_pending' = bg_pending + 1
    /\ elapsed' = 0
    /\ w_result' = "none"
    /\ last_get' = "none"
    /\ m_pc' = "wait_top"
    /\ UNCHANGED <<server_process, procs, sigterms, stops_on_stopped>>

\* the background thread reaches line 103, while the interpreter is alive
BgSpawn ==
    /\ bg_pending > 0
    /\ m_pc # "exited"
    /\ bg_pending' = bg_pending - 1
    /\ Popen
    /\ UNCHANGED <<sigterms, m_pc, elapsed, w_result, last_get, calls, stops_on_stopped>>

\* lines 110-119: the loop condition and one health GET
WaitPoll ==
    /\ m_pc = "wait_top"
    /\ IF elapsed < VllmTimeout
       THEN \E resp \in GetResponses, d \in 0..MaxGetTime :
               /\ last_get' = resp
               /\ IF IsReady(resp)
                  THEN /\ w_result' = "True"
                       /\ m_pc' = "idle"
                       /\ UNCHANGED elapsed
                  ELSE /\ elapsed' = elapsed + d
                       /\ m_pc' = "wait_sleep"
                       /\ UNCHANGED w_result
       ELSE /\ m_pc' = "wait_timeout"
            /\ UNCHANGED <<elapsed, w_result, last_get>>
    /\ UNCHANGED <<server_process, procs, sigterms, bg_pending, calls, stops_on_stopped>>

\* line 120
WaitSleep ==
    /\ m_pc = "wait_sleep"
    /\ elapsed' = elapsed + PollInterval
    /\ m_pc' = "wait_top"
    /\ UNCHANGED <<server_process, procs, sigterms, bg_pending, w_result, last_get, calls,
                   stops_on_stopped>>

\* lines 122-123: the timeout branch calls stop_server
WaitStop ==
    /\ m_pc = "wait_timeout"
    /\ stop_server
    /\ m_pc' = "wait_exit"
    /\ UNCHANGED <<server_process, bg_pending, elapsed, w_result, last_get, calls,
                   stops_on_stopped>>

\* line 124: exit(1) ends the interpreter and its daemon threads
WaitExit ==
    /\ m_pc = "wait_exit"
    /\ w_result' = "exit"
    /\ m_pc' = "exited"
    /\ UNCHANGED <<server_process, procs, sigterms, bg_pending, elapsed, last_get, calls,
                   stops_on_stopped>>

\* a loading process binds the port and starts to serve, if the port is free
ProcReady ==
    /\ ~Serving
    /\ \E p \in Pids :
          /\ procs[p].state = "loading"
          /\ procs' = [procs EXCEPT ![p].state = "ready", ![p].was_ready = TRUE]
    /\ UNCHANGED <<server_process, sigterms, m_pc, bg_pending, elapsed, w_result, last_get,
                   calls, stops_on_stopped>>

\* a process exits on its own
ProcExit ==
    /\ \E p \in Pids :
          /\ procs[p].state # "exited"
          /\ procs' = [procs EXCEPT ![p].state = "exited"]
    /\ UNCHANGED <<server_process, sigterms, m_pc, bg_pending, elapsed, w_result, last_get,
                   calls, stops_on_stopped>>

VllmInit ==
    /\ server_process = 0
    /\ procs = <<>>
    /\ sigterms = 0
    /\ m_pc = "idle"
    /\ bg_pending = 0
    /\ elapsed = 0
    /\ w_result = "none"
    /\ last_get = "none"
    /\ calls = 0
    /\ stops_on_stopped = 0

InitVllm == HandlerIdle /\ ValidateIdle /\ PdfIdle /\ VllmInit /\ GradioIdle /\ ConcIdle /\ Idle

NextVllm ==
    \/ CallStart /\ UNCHANGED <<handler_vars, validate_vars, pdf_vars, gradio_vars, conc_vars, cleanup_vars, decode_vars>>
    \/ CallWait /\ UNCHANGED <<handler_vars, validate_vars, pdf_vars, gradio_vars, conc_vars, cleanup_vars, decode_vars>>
    \/ CallStop /\ UNCHANGED <<handler_vars, validate_vars, pdf_vars, gradio_vars, conc_vars, cleanup_vars, decode_vars>>
    \/ CallRunInBackground /\ UNCHANGED <<handler_vars, validate_vars, pdf_vars, gradio_vars, conc_vars, cleanup_vars, decode_vars>>
    \/ BgSpawn /\ UNCHANGED <<handler_vars, validate_vars, pdf_vars, gradio_vars, conc_vars, cleanup_vars, decode_vars>>
    \/ WaitPoll /\ UNCHANGED <<handler_vars, validate_vars, pdf_vars, gradio_vars, conc_vars, cleanup_vars, decode_vars>>
    \/ WaitSleep /\ UNCHANGED <<handler_vars, validate_vars, pdf_vars, gradio_vars, conc_vars, cleanup_vars, decode_vars>>
    \/ WaitStop /\ UNCHANGED <<handler_vars, validate_vars, pdf_vars, gradio_vars, conc_vars, cleanup_vars, decode_vars>>
    \/ WaitExit /\ UNCHANGED <<handler_vars, validate_vars, pdf_vars, gradio_vars, conc_vars, cleanup_vars, decode_vars>>
    \/ ProcReady /\ UNCHANGED <<handler_vars, validate_vars, pdf_vars, gradio_vars, conc_vars, cleanup_vars, decode_vars>>
    \/ ProcExit /\ UNCHANGED <<handler_vars, validate_vars, pdf_vars, gradio_vars, conc_vars, cleanup_vars, decode_vars>>

SpecVllm == InitVllm /\ [][NextVllm]_vars

----------------------------------------------------------------------------
(* the worker entry point: __main__, wait_for_gradio, start_gradio_process *)

\* line 41: the default of MAX_STARTUP_WAIT, in seconds
MAX_STARTUP_WAIT == 600

\* lines 129 and 154: seconds per poll cycle
GradioPollInterval == 5

\* line 129
max_retries == MAX_STARTUP_WAIT \div GradioPollInterval

RuntimeError(msg, code) == [type |-> "RuntimeError", msg |-> msg, exit_code |-> code]

\* subprocess.TimeoutExpired, raised by communicate(timeout=1)
TimeoutExpired == [type |-> "TimeoutExpired", msg |-> "timed out", exit_code |-> FALSE]

\* what GET GRADIO_URL can answer at this moment
GradioResponses ==
    {"error"}
    \cup (IF ext_up \/ GRADIO_PROCESS.state = "ready" THEN {"200"} ELSE {})
    \cup (IF ext_up \/ GRADIO_PROCESS.state \in {"loading", "ready"} THEN {"503"} ELSE {})

\* an entry point that goes on to serve whatever the wait did
SwallowsStartupError(exc) == TRUE

\* lines 496-500: an exception of wait_for_gradio leaves the module, so the
\* next statement runs only when none was raised
StartsHandler(exc) == exc.type = "none"

\* line 496
MainCallWait ==
    /\ g_pc = "main"
    /\ g_pc' = "probe"
    /\ UNCHANGED <<g_i, GRADIO_PROCESS, ext_up, g_get, g_ret, g_exc, handler_started, g_spawns>>

\* a probe that reports no running app whatever the answer
never_running(resp) == FALSE

\* lines 48-54: True on a 200 answer, False on any other answer and on a
\* RequestException
is_gradio_running(resp) == resp = "200"

\* lines 114-117
Probe ==
    /\ g_pc = "probe"
    /\ \E resp \in GradioResponses :
          /\ g_get' = resp
          /\ IF is_gradio_running(resp)
             THEN g_ret' = "True" /\ g_pc' = "after_wait"
             ELSE g_pc' = "spawn" /\ UNCHANGED g_ret
    /\ UNCHANGED <<g_i, GRADIO_PROCESS, ext_up, g_exc, handler_started, g_spawns>>

\* lines 123-125 and start_gradio_process (57-101)
Spawn ==
    /\ g_pc = "spawn"
    /\ g_spawns' = g_spawns + 1
    /\ \E started \in BOOLEAN :
          IF started
          THEN /\ GRADIO_PROCESS' = [state |-> "loading", pipes_held |-> FALSE]
               /\ g_pc' = "loop_top"
               /\ g_i' = 0
               /\ UNCHANGED g_exc
          ELSE /\ g_exc' = RuntimeError("Failed to start Gradio process", FALSE)
               /\ g_pc' = "after_wait"
               /\ UNCHANGED <<GRADIO_PROCESS, g_i>>
    /\ UNCHANGED <<ext_up, g_get, g_ret, handler_started>>

\* lines 131-143 and 157-160: the loop header and the check for a dead process
LoopTop ==
    /\ g_pc = "loop_top"
    /\ IF g_i < max_retries
       THEN IF GRADIO_PROCESS.state = "exited"
            THEN /\ g_exc' = IF GRADIO_PROCESS.pipes_held
                             THEN TimeoutExpired
                             ELSE RuntimeError("Gradio process died during startup", TRUE)
                 /\ g_pc' = "after_wait"
            ELSE /\ g_pc' = "get"
                 /\ UNCHANGED g_exc
       ELSE /\ g_exc' = RuntimeError("Gradio app not ready", FALSE)
            /\ g_pc' = "after_wait"
    /\ UNCHANGED <<g_i, GRADIO_PROCESS, ext_up, g_get, g_ret, handler_started, g_spawns>>

\* lines 146-152
HealthGet ==
    /\ g_pc = "get"
    /\ \E resp \in GradioResponses :
          /\ g_get' = resp
          /\ IF resp = "200"
             THEN g_ret' = "True" /\ g_pc' = "after_wait"
             ELSE g_pc' = "sleep" /\ UNCHANGED g_ret
    /\ UNCHANGED <<g_i, GRADIO_PROCESS, ext_up, g_exc, handler_started, g_spawns>>

\* lines 154-156
Sleep ==
    /\ g_pc = "sleep"
    /\ g_i' = g_i + 1
    /\ g_pc' = "loop_top"
    /\ UNCHANGED <<GRADIO_PROCESS, ext_up, g_get, g_ret, g_exc, handler_started, g_spawns>>

\* lines 498-502
MainAfterWait ==
    /\ g_pc = "after_wait"
    /\ IF StartsHandler(g_exc)
       THEN handler_started' = TRUE /\ g_pc' = "serving"
       ELSE g_pc' = "crashed" /\ UNCHANGED handler_started
    /\ UNCHANGED <<g_i, GRADIO_PROCESS, ext_up, g_get, g_ret, g_exc, g_spawns>>

Waiting == g_pc \in {"probe", "spawn", "loop_top", "get", "sleep"}

\* the spawned app finishes loading and serves, if the port is free
GradioReady ==
    /\ Waiting
    /\ ~ext_up
    /\ GRADIO_PROCESS.state = "loading"
    /\ GRADIO_PROCESS' = [GRADIO_PROCESS EXCEPT !.state = "ready"]
    /\ UNCHANGED <<g_pc, g_i, ext_up, g_get, g_ret, g_exc, handler_started, g_spawns>>

\* the spawned app exits; a child it started (vllm.py line 103 passes no
\* stdout or stderr, so the child inherits the pipes of line 90-91) may live on
GradioExit ==
    /\ Waiting
    /\ GRADIO_PROCESS.state \in {"loading", "ready"}
    /\ \E held \in BOOLEAN :
          GRADIO_PROCESS' = [state |-> "exited", pipes_held |-> held]
    /\ UNCHANGED <<g_pc, g_i, ext_up, g_get, g_ret, g_exc, handler_started, g_spawns>>

\* the app started by start_services.sh comes up
ExternalUp ==
    /\ Waiting \/ g_pc = "main"
    /\ ~ext_up
    /\ GRADIO_PROCESS.state # "ready"
    /\ ext_up' = TRUE
    /\ UNCHANGED <<g_pc, g_i, GRADIO_PROCESS, g_get, g_ret, g_exc, handler_started, g_spawns>>

GradioInit ==
    /\ g_pc = "main"
    /\ g_i = 0
    /\ GRADIO_PROCESS = NoProcess
    /\ ext_up = FALSE
    /\ g_get = "none"
    /\ g_ret = "none"
    /\ g_exc = NoException
    /\ handler_started = FALSE
    /\ g_spawns = 0

InitGradio == HandlerIdle /\ ValidateIdle /\ PdfIdle /\ VllmIdle /\ GradioInit /\ ConcIdle /\ Idle

NextGradio ==
    \/ MainCallWait /\ UNCHANGED <<handler_vars, validate_vars, pdf_vars, vllm_vars, conc_vars, cleanup_vars, decode_vars>>
    \/ Probe /\ UNCHANGED <<handler_vars, validate_vars, pdf_vars, vllm_vars, conc_vars, cleanup_vars, decode_vars>>
    \/ Spawn /\ UNCHANGED <<handler_vars, validate_vars, pdf_vars, vllm_vars, conc_vars, cleanup_vars, decode_vars>>
    \/ LoopTop /\ UNCHANGED <<handler_vars, validate_vars, pdf_vars, vllm_vars, conc_vars, cleanup_vars, decode_vars>>
    \/ HealthGet /\ UNCHANGED <<handler_vars, validate_vars, pdf_vars, vllm_vars, conc_vars, cleanup_vars, decode_vars>>
    \/ Sleep /\ UNCHANGED <<handler_vars, validate_vars, pdf_vars, vllm_vars, conc_vars, cleanup_vars, decode_vars>>
    \/ MainAfterWait /\ UNCHANGED <<handler_vars, validate_vars, pdf_vars, vllm_vars, conc_vars, cleanup_vars, decode_vars>>
    \/ GradioReady /\ UNCHANGED <<handler_vars, validate_vars, pdf_vars, vllm_vars, conc_vars, cleanup_vars, decode_vars>>
    \/ GradioExit /\ UNCHANGED <<handler_vars, validate_vars, pdf_vars, vllm_vars, conc_vars, cleanup_vars, decode_vars>>
    \/ ExternalUp /\ UNCHANGED <<handler_vars, validate_vars, pdf_vars, vllm_vars, conc_vars, cleanup_vars, decode_vars>>

SpecGradio == InitGradio /\ [][NextGradio]_vars

----------------------------------------------------------------------------
(* two concurrent invocations of handler: staging and cleanup on one temp
   directory *)

\* files each invocation stages
ConcFiles == 1

\* length of the random part of a temp file name
RandLen == 1

\* characters tempfile draws the random part from
RandAlphabet == {"a", "_"}

RandNames == [1..RandLen -> RandAlphabet]

\* tempfile's prefix
TempPrefix == <<"t", "m", "p">>

JpgSuffix == <<".", "j", "p", "g">>

\* what file_extension yields for the staged files: a suffix that starts with
\* its only '.', or nothing
Suffixes == {<<".", "p", "d", "f">>, JpgSuffix, <<>>}

\* lines 190-194: the name NamedTemporaryFile gives a file
TempName(r, ext) == TempPrefix \o r \o ext

\* line 216: path.rsplit('.', 1)[0]
rsplit_base(path) ==
    LET i == LastIndexOf(path, ".", Len(path))
    IN  IF i = 0 THEN path ELSE SubSeq(path, 1, i - 1)

StartsWith(f, pre) == Len(f) >= Len(pre) /\ SubSeq(f, 1, Len(pre)) = pre

EndsWith(f, suf) == Len(f) >= Len(suf) /\ SubSeq(f, Len(f) - Len(suf) + 1, Len(f)) = suf

\* a pattern f"{base_path}*.jpg", without the underscore
glob_any_jpg(base, f) ==
    /\ Len(f) >= Len(base) + Len(JpgSuffix)
    /\ StartsWith(f, base)
    /\ EndsWith(f, JpgSuffix)

\* line 218: f matches glob.glob(f"{base_path}_*.jpg")
glob_converted(base, f) ==
    /\ Len(f) >= Len(base) + 1 + Len(JpgSuffix)
    /\ StartsWith(f, base \o <<"_">>)
    /\ EndsWith(f, JpgSuffix)

\* the page image the backend writes next to a staged document
ConvertedName(path) == rsplit_base(path) \o <<"_", "1">> \o JpgSuffix

\* the staged files that exist and were created by an invocation other than h
StagedByOthers(h) ==
    UNION {c_staged[k] \cap c_made[k] : k \in Invocations \ {h}}

\* files leave the directory: invocation h has deleted them
Delete(h, gone) ==
    /\ c_fs' = c_fs \ gone
    /\ c_made' = [k \in Invocations |-> c_made[k] \ gone]
    /\ c_foreign' = c_foreign \cup {<<h, f>> : f \in gone \cap StagedByOthers(h)}

\* lines 175-199 for one file: NamedTemporaryFile creates a file under a name
\* that does not exist yet and the path is appended; after the last file,
\* decode_base64_files returns and handler assigns temp_files (line 425)
CStage(h) ==
    /\ c_pc[h] = "stage"
    /\ c_left[h] > 0
    /\ \E r \in RandNames, ext \in Suffixes :
          /\ TempName(r, ext) \notin c_fs
          /\ c_fs' = c_fs \cup {TempName(r, ext)}
          /\ c_made' = [c_made EXCEPT ![h] = @ \cup {TempName(r, ext)}]
          /\ c_staged' = [c_staged EXCEPT ![h] = @ \cup {TempName(r, ext)}]
          /\ c_files' = [c_files EXCEPT ![h] = Append(@, TempName(r, ext))]
    /\ c_left' = [c_left EXCEPT ![h] = @ - 1]
    /\ c_pc' = [c_pc EXCEPT ![h] = IF c_left[h] = 1 THEN "invoke" ELSE "stage"]
    /\ UNCHANGED <<c_idx, c_foreign>>

\* lines 202-204: decoding a file fails, the paths staged so far are dropped
\* and handler reaches its finally clause with temp_files empty
CStageFail(h) ==
    /\ c_pc[h] = "stage"
    /\ c_left[h] > 0
    /\ c_files' = [c_files EXCEPT ![h] = <<>>]
    /\ c_pc' = [c_pc EXCEPT ![h] = "done"]
    /\ UNCHANGED <<c_fs, c_left, c_idx, c_made, c_staged, c_foreign>>

\* the backend call writes a page image for one staged document
CConvert(h) ==
    /\ c_pc[h] = "invoke"
    /\ \E i \in 1..Len(c_files[h]) :
          /\ ConvertedName(c_files[h][i]) \notin c_fs
          /\ c_fs' = c_fs \cup {ConvertedName(c_files[h][i])}
          /\ c_made' = [c_made EXCEPT ![h] = @ \cup {ConvertedName(c_files[h][i])}]
    /\ UNCHANGED <<c_pc, c_left, c_files, c_idx, c_staged, c_foreign>>

\* lines 485-487: the finally clause enters cleanup_temp_files
CFinally(h) ==
    /\ c_pc[h] = "invoke"
    /\ c_pc' = [c_pc EXCEPT ![h] = "cleanup"]
    /\ c_idx' = [c_idx EXCEPT ![h] = 1]
    /\ UNCHANGED <<c_fs, c_left, c_files, c_made, c_staged, c_foreign>>

\* lines 211-214: the next path is removed if it exists
CRemove(h) ==
    /\ c_pc[h] = "cleanup"
    /\ IF c_idx[h] > Len(c_files[h])
       THEN /\ c_pc' = [c_pc EXCEPT ![h] = "done"]
            /\ UNCHANGED <<c_fs, c_idx, c_made, c_foreign>>
       ELSE IF c_files[h][c_idx[h]] \in c_fs
            THEN /\ Delete(h, {c_files[h][c_idx[h]]})
                 /\ c_pc' = [c_pc EXCEPT ![h] = "glob"]
                 /\ UNCHANGED c_idx
            ELSE /\ c_idx' = [c_idx EXCEPT ![h] = @ + 1]
                 /\ UNCHANGED <<c_fs, c_pc, c_made, c_foreign>>
    /\ UNCHANGED <<c_left, c_files, c_staged>>

\* lines 216-219: the converted images of that path are removed
CGlob(h) ==
    /\ c_pc[h] = "glob"
    /\ Delete(h, {f \in c_fs : glob_converted(rsplit_base(c_files[h][c_idx[h]]), f)})
    /\ c_idx' = [c_idx EXCEPT ![h] = @ + 1]
    /\ c_pc' = [c_pc EXCEPT ![h] = "cleanup"]
    /\ UNCHANGED <<c_left, c_files, c_staged>>

ConcInit ==
    /\ c_fs = {}
    /\ c_pc = [h \in Invocations |-> "stage"]
    /\ c_left = [h \in Invocations |-> ConcFiles]
    /\ c_files = [h \in Invocations |-> <<>>]
    /\ c_idx = [h \in Invocations |-> 0]
    /\ c_made = [h \in Invocations |-> {}]
    /\ c_staged = [h \in Invocations |-> {}]
    /\ c_foreign = {}

InitConc == HandlerIdle /\ ValidateIdle /\ PdfIdle /\ VllmIdle /\ GradioIdle /\ ConcInit /\ Idle

NextConc ==
    \/ \E h \in Invocations : CStage(h) /\ UNCHANGED <<handler_vars, validate_vars, pdf_vars, vllm_vars, gradio_vars,
                                             cleanup_vars, decode_vars>>
    \/ \E h \in Invocations : CStageFail(h) /\ UNCHANGED <<handler_vars, validate_vars, pdf_vars, vllm_vars, gradio_vars,
                                             cleanup_vars, decode_vars>>
    \/ \E h \in Invocations : CConvert(h) /\ UNCHANGED <<handler_vars, validate_vars, pdf_vars, vllm_vars, gradio_vars,
                                             cleanup_vars, decode_vars>>
    \/ \E h \in Invocations : CFinally(h) /\ UNCHANGED <<handler_vars, validate_vars, pdf_vars, vllm_vars, gradio_vars,
                                             cleanup_vars, decode_vars>>
    \/ \E h \in Invocations : CRemove(h) /\ UNCHANGED <<handler_vars, validate_vars, pdf_vars, vllm_vars, gradio_vars,
                                             cleanup_vars, decode_vars>>
    \/ \E h \in Invocations : CGlob(h) /\ UNCHANGED <<handler_vars, validate_vars, pdf_vars, vllm_vars, gradio_vars,
                                             cleanup_vars, decode_vars>>

SpecConc == InitConc /\ [][NextConc]_vars

----------------------------------------------------------------------------
(* the finally block of handler and cleanup_temp_files, with removals that
   can fail *)

\* a staged temp file, and the converted image the glob of line 218 finds for it
StagedFile(n) == [n |-> n, kind |-> "staged"]

ImageOf(path) == [n |-> path.n, kind |-> "image"]

\* the envelopes the try/except of handler can have built once files are staged
PrimaryEnvelopes == {"success", "validation_error", "processing_error"}

\* a cleanup without the try/except around each path
NoCleanupCatch(exc) == "escape"

\* lines 220-221: `except Exception` inside the loop logs a warning
CleanupCatch(exc) == IF "Exception" \in Mro(exc) THEN "logged" ELSE "escape"

\* lines 485-487: `if temp_files:` enters cleanup_temp_files, else handler
\* returns what the try/except built
KFinally ==
    /\ k_pc = "finally"
    /\ IF k_paths = <<>>
       THEN /\ k_outcome' = [kind |-> "return", envelope |-> k_primary]
            /\ k_pc' = "done"
            /\ UNCHANGED k_idx
       ELSE /\ k_pc' = "loop"
            /\ k_idx' = 1
            /\ UNCHANGED k_outcome
    /\ UNCHANGED <<k_paths, k_fs, k_locked, k_primary, k_visited, k_warnings>>

\* what one iteration does to the files: [fs, failed]
RemovePath(path) ==
    IF path \notin k_fs THEN [fs |-> k_fs, failed |-> FALSE]
    ELSE IF path \in k_locked THEN [fs |-> k_fs, failed |-> TRUE]
    ELSE IF ImageOf(path) \notin k_fs THEN [fs |-> k_fs \ {path}, failed |-> FALSE]
    ELSE IF ImageOf(path) \in k_locked THEN [fs |-> k_fs \ {path}, failed |-> TRUE]
    ELSE [fs |-> k_fs \ {path, ImageOf(path)}, failed |-> FALSE]

\* lines 211-221: one iteration of the loop of cleanup_temp_files
KCleanupPath ==
    /\ k_pc = "loop"
    /\ k_idx <= Len(k_paths)
    /\ k_visited' = k_visited \cup {k_idx}
    /\ LET r == RemovePath(k_paths[k_idx])
       IN  /\ k_fs' = r.fs
           /\ IF r.failed /\ CleanupCatch("PermissionError") = "escape"
              THEN /\ k_outcome' = [kind |-> "raise", envelope |-> "none"]
                   /\ k_pc' = "done"
                   /\ UNCHANGED <<k_idx, k_warnings>>
              ELSE /\ k_warnings' = IF r.failed THEN k_warnings + 1 ELSE k_warnings
                   /\ k_idx' = k_idx + 1
                   /\ UNCHANGED <<k_pc, k_outcome>>
    /\ UNCHANGED <<k_paths, k_locked, k_primary>>

\* lines 488-489: cleanup_temp_files is through and handler returns
KReturn ==
    /\ k_pc = "loop"
    /\ k_idx > Len(k_paths)
    /\ k_outcome' = [kind |-> "return", envelope |-> k_primary]
    /\ k_pc' = "done"
    /\ UNCHANGED <<k_paths, k_idx, k_fs, k_locked, k_primary, k_visited, k_warnings>>

CleanupInit ==
    /\ k_pc = "finally"
    /\ \E n \in 0..MaxFiles :
          /\ k_paths = [i \in 1..n |-> StagedFile(i)]
          /\ k_fs \in SUBSET ({StagedFile(i) : i \in 1..n} \cup {ImageOf(StagedFile(i)) : i \in 1..n})
    /\ k_locked \in SUBSET k_fs
    /\ k_idx = 0
    /\ k_primary \in PrimaryEnvelopes
    /\ k_outcome = NoOutcome
    /\ k_visited = {}
    /\ k_warnings = 0

InitCleanup ==
    /\ HandlerIdle /\ ValidateIdle /\ PdfIdle /\ VllmIdle /\ GradioIdle /\ ConcIdle
    /\ CleanupInit /\ DecodeIdle

NextCleanup ==
    \/ KFinally /\ UNCHANGED <<handler_vars, validate_vars, pdf_vars, vllm_vars, gradio_vars, conc_vars, decode_vars>>
    \/ KCleanupPath /\ UNCHANGED <<handler_vars, validate_vars, pdf_vars, vllm_vars, gradio_vars, conc_vars, decode_vars>>
    \/ KReturn /\ UNCHANGED <<handler_vars, validate_vars, pdf_vars, vllm_vars, gradio_vars, conc_vars, decode_vars>>

SpecCleanup == InitCleanup /\ [][NextCleanup]_vars

----------------------------------------------------------------------------
(* one iteration of decode_base64_files on its own: the same entry with its
   payload bare and with a data URI prefix, over every shape of filename *)

\* payloads: well-formed, padded and malformed base64
Payloads == SeqUpTo({"Q", "="}, MaxPayload)

\* "data:;" and "data:a/t;", the text a data URI carries before "base64,"
UriPrefixes ==
    {<<"d", "a", "t", "a", ":", ";">>,
     <<"d", "a", "t", "a", ":", "a", "/", "t", ";">>}

\* a.pdf, a.b.jpg, doc, .hidden, name., d.d/file, or no 'filename' key
DecodeNames ==
    {Absent,
     PyStr(<<"a", ".", "p", "d", "f">>),
     PyStr(<<"a", ".", "b", ".", "j", "p", "g">>),
     PyStr(<<"d", "o", "c">>),
     PyStr(<<".", "h", "i", "d", "d", "e", "n">>),
     PyStr(<<"n", "a", "m", "e", ".">>),
     PyStr(<<"d", ".", "d", "/", "f", "i", "l", "e">>)}

FileInfo(filename, data) == [t |-> "dict", filename |-> filename, data |-> PyStr(data)]

\* lines 177-196 for the entry with the data X and with the data <prefix>base64,X
RunDecode ==
    /\ d_pc = "start"
    /\ d_plain' = decode_one(FileInfo(d_filename, d_payload))
    /\ d_uri' = decode_one(FileInfo(d_filename, d_prefix \o <<"base64,">> \o d_payload))
    /\ d_pc' = "done"
    /\ UNCHANGED <<d_filename, d_prefix, d_payload>>

DecodeInit ==
    /\ d_pc = "start"
    /\ d_filename \in DecodeNames
    /\ d_prefix \in UriPrefixes
    /\ d_payload \in Payloads
    /\ d_plain = NoDecode
    /\ d_uri = NoDecode

InitDecode ==
    /\ HandlerIdle /\ ValidateIdle /\ PdfIdle /\ VllmIdle /\ GradioIdle /\ ConcIdle
    /\ CleanupIdle /\ DecodeInit

NextDecode ==
    RunDecode /\ UNCHANGED <<handler_vars, validate_vars, pdf_vars, vllm_vars, gradio_vars, conc_vars, cleanup_vars>>

SpecDecode == InitDecode /\ [][NextDecode]_vars

----------------------------------------------------------------------------
(* claims about handler, checked under Spec *)

StagedPaths == {staged[i].path : i \in 1..Len(staged)}

\* C1: on every exit path of handler, every temp file decode_base64_files
\* created during the invocation is deleted by the time handler returns:
\* as many files are deleted as were allocated.
C1_EveryTempFileDeleted ==
    pc = "done" => /\ StagedPaths \cap fs = {}
                   /\ Cardinality(removed) = Len(staged)

\* C2: for any job, handler comes to its end without being stuck and returns
\* an envelope, never an exception: success with fields, tables and
\* metadata, or failure with an error and an error_type that is
\* validation_error or processing_error.
C2_HandlerAlwaysReturnsEnvelope ==
    /\ pc # "done" => ENABLED Next
    /\ pc = "done" =>
          /\ result.kind = "return"
          /\ \/ /\ result.success
                /\ {"fields", "tables", "metadata"} \subseteq result.keys
             \/ /\ ~result.success
                /\ {"error", "error_type"} \subseteq result.keys
                /\ result.error_type \in {"validation_error", "processing_error"}

\* a backend failure that handler turned into a processing_error envelope
C2_Witness ==
    /\ pc = "done"
    /\ backend_calls = 1
    /\ result.kind = "return"
    /\ result.error_type = "processing_error"

\* C5: when validate_input rejects the request (raises its ValueError),
\* no temp file is ever created, the backend is never called, and handler
\* returns a validation_error envelope.
C5_ValidationRejectionShortCircuits ==
    val_exc = "ValueError" =>
        /\ staged = <<>>
        /\ fs = {}
        /\ temp_files = <<>>
        /\ backend_calls = 0
        /\ pc \in {"finally", "done"}
        /\ result.kind = "return"
        /\ result.error_type = "validation_error"

\* handler has returned after validate_input rejected a request that has files
C5_Witness ==
    /\ pc = "done"
    /\ val_exc = "ValueError"
    /\ job_input.files.t = "list"
    /\ Len(job_input.files.v) > 0

\* C6: whenever handler returns a validation_error envelope, no temp file
\* was written during the invocation.
C6_ValidationErrorMeansNothingStaged ==
    (pc = "done" /\ result.error_type = "validation_error") => staged = <<>>

\* C7: when staging one document fails, handler returns a processing_error
\* envelope whose message names that document; the failure is never
\* reported as a validation error.
C7_StagingFailureIsProcessingError ==
    (pc = "done" /\ stage_failed > 0) =>
        /\ result.kind = "return"
        /\ result.error_type = "processing_error"
        /\ \E i \in 1..Len(result.error) : result.error[i].doc = stage_failed

----------------------------------------------------------------------------
(* claims about validate_input, checked under SpecValidate *)

Texts(errors) == {errors[i].text : i \in 1..Len(errors)}

\* no field or table was requested: the key is missing or holds something empty
ZeroSpecs(x) == x.t = "absent" \/ (Sized(x) /\ Len(x.v) = 0)

\* the violation the 'files' key of the request shows, if any
FilesViolation(job) ==
    IF job.files.t = "absent" THEN {"Missing required field: 'files'"}
    ELSE IF job.files.t # "list" THEN {"'files' must be a list"}
    ELSE IF job.files.v = <<>> THEN {"'files' list cannot be empty"}
    ELSE {}

\* C8: for a request with zero fields and zero tables validate_input raises
\* one combined error that holds the 'at least one field or table'
\* violation together with every other violation the request shows.
C8_ZeroSpecsAccumulatesAll ==
    (v_pc = "done" /\ ZeroSpecs(job_input.fields) /\ ZeroSpecs(job_input.tables)) =>
        /\ v_res.exc = "ValueError"
        /\ "At least one field or table must be specified" \in Texts(v_res.errors)
        /\ FilesViolation(job_input) \subseteq Texts(v_res.errors)
        /\ job_input.fields.t = "str" => "'fields' must be a list" \in Texts(v_res.errors)
        /\ job_input.tables.t = "str" => "'tables' must be a list" \in Texts(v_res.errors)

\* a request without files, fields or tables was validated: two violations at once
C8_Witness ==
    /\ v_pc = "done"
    /\ ZeroSpecs(job_input.fields) /\ ZeroSpecs(job_input.tables)
    /\ job_input.files.t = "absent"
    /\ Len(v_res.errors) >= 2

HasEmptyName(x) ==
    /\ x.t = "list"
    /\ \E i \in 1..Len(x.v) : x.v[i].t = "dict" /\ x.v[i].has_name /\ x.v[i].name = ""

\* C9: a request in which some field or table spec has the empty string as
\* its name is rejected: it never passes validation.
C9_EmptyNameRejected ==
    (v_pc = "done" /\ (HasEmptyName(job_input.fields) \/ HasEmptyName(job_input.tables))) =>
        v_res.exc # "none"

NamesUnique(x) == \A i, j \in 1..Len(x.v) : x.v[i].name = x.v[j].name => i = j

\* C10: every request that passes validation has names unique within its
\* fields list and unique within its tables list.
C10_ValidatedNamesUnique ==
    (v_pc = "done" /\ v_res.exc = "none") =>
        /\ NamesUnique(v_res.value.fields)
        /\ NamesUnique(v_res.value.tables)

----------------------------------------------------------------------------
(* claims about _process_with_ocr, checked under SpecPdf *)

Markers(n) == {PageMarker(k) : k \in 1..n}

IsMarker(tok) == tok \in Markers(Len(pages))

\* the page markers of the returned content, in the order they appear
MarkersOf(content) == SelectSeq(content, IsMarker)

RECURSIVE Bodies(_)
\* the text that follows each page marker, up to the next marker
Bodies(content) ==
    LET first == CHOOSE i \in 1..(Len(content) + 1) :
                     /\ i <= Len(content) => IsMarker(content[i])
                     /\ \A j \in 1..(i - 1) : ~IsMarker(content[j])
    IN  IF first > Len(content) THEN <<>>
        ELSE LET rest == SubSeq(content, first + 1, Len(content))
                 nxt == CHOOSE i \in 1..(Len(rest) + 1) :
                            /\ i <= Len(rest) => IsMarker(rest[i])
                            /\ \A j \in 1..(i - 1) : ~IsMarker(rest[j])
             IN  <<SubSeq(rest, 1, nxt - 1)>> \o Bodies(SubSeq(rest, nxt, Len(rest)))

NonEmptyBody(b) == Strip(b) # <<>> /\ Strip(b) # <<EmptyPageText>>

EmptyPages == {k \in 1..Len(pages) : Strip(pages[k].content) = <<>>}

\* C3: when the backend fails on one page, the other pages are still
\* submitted to the backend and their content appears in the result.
C3_PageFailureIsolated ==
    (/\ pdf_pc = "done"
     /\ \A k \in 1..Len(pages) : pages[k].save = "ok"
     /\ \E i \in submitted : pages[i].ocr = "fail"
     /\ \E j \in 1..Len(pages) : pages[j].ocr = "ok") =>
        /\ pdf_result.kind = "return"
        /\ \A j \in 1..Len(pages) :
              pages[j].ocr = "ok" =>
                  /\ j \in submitted
                  /\ KeepPage(pages[j].content) =>
                        \E p \in 1..Len(pdf_result.content) :
                            pdf_result.content[p] = PageMarker(j)

\* C4: for N pages of which K are empty or whitespace-only, the returned
\* content holds the N markers '## Page 1' .. '## Page N' in increasing
\* order and N-K non-empty bodies; an empty page is recorded with the
\* explicit empty-page marker.
C4_MarkerForEveryPage ==
    (/\ pdf_pc = "done"
     /\ pdf_result.kind = "return"
     /\ Len(pages) > 0) =>
        /\ MarkersOf(pdf_result.content) = [k \in 1..Len(pages) |-> PageMarker(k)]
        /\ LET bodies == Bodies(pdf_result.content)
           IN  /\ Cardinality({k \in 1..Len(bodies) : NonEmptyBody(bodies[k])})
                      = Len(pages) - Cardinality(EmptyPages)
               /\ \A k \in EmptyPages :
                     k <= Len(bodies) /\ Strip(bodies[k]) = <<EmptyPageText>>


\* C19: every page-scoped temp image that was created is deleted before the
\* next page is processed and before the method returns or raises, whether
\* writing the raster, the backend call or the content handling failed or not.
C19_PageImageAlwaysDeleted ==
    pdf_pc \in {"save", "done"} => tmp_images = {}

\* C20: when every page is empty or whitespace-only (a document of zero
\* pages included) the returned content is the 'No content extracted'
\* sentinel, never the empty string, and the sentinel is returned only when
\* no page has non-empty content.
C20_SentinelIffNoContent ==
    (pdf_pc = "done" /\ pdf_result.kind = "return") =>
        /\ pdf_result.content # <<>>
        /\ pdf_result.content = <<NoContentSentinel>>
              <=> \A k \in 1..Len(pages) : Strip(pages[k].content) = <<>>

\* two pages, both without text, were aggregated
C20_Witness ==
    /\ pdf_pc = "done"
    /\ pdf_result.kind = "return"
    /\ Len(pages) = 2
    /\ pages[1].content = <<>>
    /\ pages[2].content = <<" ", "\n">>
    /\ pdf_result.content = <<NoContentSentinel>>

----------------------------------------------------------------------------
(* claims about VLLMServer, checked under SpecVllm *)

\* C11: once wait_for_server has reported the startup failure (exit(1) after
\* the timeout), the process the handle supervises is no longer running.
C11_TimeoutStopsProcess ==
    m_pc = "exited" =>
        (server_process # 0 => procs[server_process].state = "exited")

\* C12: a poll cycle that begins, with timeout budget left, after the
\* supervised process has exited without ever being ready reports a crash in
\* that cycle instead of probing and sleeping again.
C12_CrashDetectedOnNextCycle ==
    [][(/\ m_pc = "wait_top"
        /\ m_pc' # "wait_top"
        /\ elapsed < VllmTimeout
        /\ server_process # 0
        /\ procs[server_process].state = "exited"
        /\ ~procs[server_process].was_ready
        /\ ~procs[server_process].reaped)
       => (w_result' = "crash" /\ m_pc' # "wait_sleep")]_vars

C15_StopIdempotent ==
    [][(CallStop /\ (server_process = 0 \/ procs[server_process].reaped))
       => UNCHANGED <<server_process, procs, sigterms>>]_vars

C15_Witness ==
    /\ stops_on_stopped >= 1
    /\ server_process # 0
    /\ sigterms = 1

\* the lifecycle state of a handle, read off its process and the last wait
Lifecycle(sp, ps, wr) ==
    IF sp = 0 THEN "NotStarted"
    ELSE IF ps[sp].reaped THEN "Stopped"
    ELSE IF ps[sp].state = "exited" THEN "Failed"
    ELSE IF wr = "True" /\ ps[sp].state = "ready" THEN "Ready"
    ELSE "Starting"

\* C16: a handle that is Ready or Stopped never returns to Starting, and a
\* handle whose process is still live never gets another process.
C16_LifecycleNeverRegresses ==
    [][/\ Lifecycle(server_process, procs, w_result) \in {"Ready", "Stopped"}
          => Lifecycle(server_process', procs', w_result') # "Starting"
       /\ (server_process # 0 /\ procs[server_process].state # "exited")
          => server_process' = server_process]_vars

----------------------------------------------------------------------------
(* claims about the worker entry point, checked under SpecGradio *)

\* C13: a poll cycle of wait_for_gradio that begins after the spawned process
\* has exited raises RuntimeError carrying the exit code in that cycle, before
\* any GET, and neither sleeps and retries nor returns True.
C13_DeadProcessRaisesAtCycleStart ==
    [][(/\ g_pc = "loop_top"
        /\ g_pc' # "loop_top"
        /\ g_i < max_retries
        /\ GRADIO_PROCESS.state = "exited")
       => (/\ g_pc' = "after_wait"
           /\ g_ret' = "none"
           /\ g_get' = g_get
           /\ g_exc'.type = "RuntimeError"
           /\ g_exc'.exit_code)]_vars

\* C17: runpod.serverless.start is reached only after wait_for_gradio returned
\* True on a 200 answer, and never after it raised.
C17_HandlerStartsOnlyWhenReady ==
    handler_started =>
        /\ g_ret = "True"
        /\ g_get = "200"
        /\ g_exc = NoException

C17_Witness ==
    /\ handler_started
    /\ g_pc = "serving"
    /\ g_i > 0
    /\ GRADIO_PROCESS.state = "ready"

----------------------------------------------------------------------------
(* claims about concurrent invocations, checked under SpecConc *)

\* C18: at every moment of every interleaving, the staged files the two
\* invocations hold are disjoint, and no invocation has deleted, by path or by
\* its glob for converted images, a file the other one created.
C18_ConcurrentInvocationsIsolated ==
    /\ (c_staged["A"] \cap c_made["A"]) \cap (c_staged["B"] \cap c_made["B"]) = {}
    /\ c_foreign = {}

C18_Witness ==
    /\ c_pc["A"] = "done"
    /\ c_pc["B"] = "invoke"
    /\ c_files["A"] = <<TempName([i \in 1..RandLen |-> "a"], <<".", "p", "d", "f">>)>>
    /\ c_files["B"] = <<TempName([i \in 1..RandLen |-> "a"], JpgSuffix)>>
    /\ c_fs = {c_files["B"][1]}

----------------------------------------------------------------------------
(* claims about the success envelope and about non-list specs, checked
   under Spec *)

\* how many fields or tables a request asks for under one key
RequestedCount(x) == IF x.t = "absent" THEN 0 ELSE Len(x.v)

\* C24: in a success envelope num_documents, num_fields and num_tables are
\* the numbers of files, fields and tables of the request.
C24_MetadataCountsMatchRequest ==
    (pc = "done" /\ result.success) =>
        /\ result.metadata.num_documents = Len(job_input.files.v)
        /\ result.metadata.num_fields = RequestedCount(job_input.fields)
        /\ result.metadata.num_tables = RequestedCount(job_input.tables)

C24_Witness ==
    /\ pc = "done"
    /\ result.success
    /\ result.fields = <<>>
    /\ result.metadata.num_documents = 2
    /\ result.metadata.num_fields = 2
    /\ result.metadata.num_tables = 1

\* C25: in a success envelope model_used is the model name that was handed to
\* the backend for this request.
C25_ModelUsedIsModelPassed ==
    (pc = "done" /\ result.success) => result.metadata.model_used = backend_model

\* the requested names, in the order of the request
NamesOf(x) == [i \in 1..Len(x.v) |-> x.v[i].name]

\* rows carry requested names only, in the order the names were requested
FollowsRequest(rows, names) ==
    \A i \in 1..Len(rows) :
        /\ Contains(names, rows[i])
        /\ \A j \in (i + 1)..Len(rows) : IndexOf(names, rows[i], 1) <= IndexOf(names, rows[j], 1)

\* C26: in a success envelope the fields and tables follow the order of the
\* requested names and carry no name that was not requested.
C26_ResultsFollowRequest ==
    (pc = "done" /\ result.success) =>
        /\ FollowsRequest(result.fields, NamesOf(validated_input.fields))
        /\ FollowsRequest(result.tables, NamesOf(validated_input.tables))

\* C30: a request whose 'fields' or 'tables' is present and not a list ends
\* in a validation_error envelope naming the "must be a list" violation.
C30_NonListIsValidationError ==
    (pc = "done" /\ job_input.t = "dict") =>
        /\ job_input.fields.t \notin {"absent", "list"} =>
              /\ result.error_type = "validation_error"
              /\ "'fields' must be a list" \in Texts(result.error)
        /\ job_input.tables.t \notin {"absent", "list"} =>
              /\ result.error_type = "validation_error"
              /\ "'tables' must be a list" \in Texts(result.error)

----------------------------------------------------------------------------
(* claims about the startup budget and the background start, checked under
   SpecVllm *)

\* C27: wait_for_server has ended, with success or with failure, no later
\* than the timeout plus one poll interval after it was entered.
C27_WaitEndsWithinBudget ==
    (w_result = "True" \/ m_pc \in {"wait_timeout", "wait_exit", "exited"}) =>
        elapsed <= VllmTimeout + PollInterval

\* C29: when run_in_background is the only call made on the handle, then
\* once the wait has timed out and stop_server has run no process spawned by
\* the handle is running, whatever the interleaving with the background thread.
C29_NoProcessAfterTimeoutStop ==
    (calls = 1 /\ m_pc \in {"wait_exit", "exited"}) =>
        \A p \in Pids : procs[p].state = "exited"

----------------------------------------------------------------------------
(* claims about the startup timeout of the worker, checked under SpecGradio *)

\* C28: when wait_for_gradio has raised because the retries are used up, the
\* process it spawned is no longer running.
C28_TimeoutStopsSpawnedProcess ==
    (g_exc.type = "RuntimeError" /\ g_exc.msg = "Gradio app not ready") =>
        GRADIO_PROCESS.state \notin {"loading", "ready"}

----------------------------------------------------------------------------
(* claims about cleanup failures, checked under SpecCleanup *)

\* C21: whatever removals fail, cleanup_temp_files handles every path of
\* temp_files, removes every staged file that can be removed, and handler
\* returns the envelope its try/except had built.
C21_CleanupFailureIsContained ==
    k_pc = "done" =>
        /\ k_visited = 1..Len(k_paths)
        /\ \A i \in 1..Len(k_paths) : k_paths[i] \in k_fs => k_paths[i] \in k_locked
        /\ k_outcome = [kind |-> "return", envelope |-> k_primary]

C21_Witness ==
    /\ k_pc = "done"
    /\ Len(k_paths) = 2
    /\ k_paths[1] \in k_fs
    /\ k_paths[1] \in k_locked
    /\ k_paths[2] \notin k_fs
    /\ k_warnings = 1
    /\ k_primary = "success"
    /\ k_outcome.kind = "return"

----------------------------------------------------------------------------
(* claims about decoding and the staged extension, checked under SpecDecode *)

SuppliedName == Get(d_filename, PyStr(<<"d", "o", "c">>)).v

\* C23: the staged file carries the suffix of the supplied filename, and
\* '.pdf' when the filename has none; its extension is never empty.
C23_ExtensionNeverEmpty ==
    (d_pc = "done" /\ d_plain.exc = "none") =>
        /\ d_plain.ext # <<>>
        /\ d_plain.ext = IF PathSuffix(SuppliedName) # <<>>
                         THEN PathSuffix(SuppliedName)
                         ELSE <<".", "p", "d", "f">>

----------------------------------------------------------------------------
(* claims about the initial health probe of the worker, checked under SpecGradio *)

\* C31: when the initial probe of wait_for_gradio is answered with 200 the
\* call returns True at once, starts no subprocess and leaves GRADIO_PROCESS
\* as it was; a subprocess is started only after an initial probe that was
\* not answered with 200, and at most once in the call.
C31_SpawnOnlyAfterFailedProbe ==
    [][/\ (g_pc = "probe" /\ g_pc' # "probe" /\ g_get' = "200")
          => (/\ g_pc' = "after_wait"
              /\ g_ret' = "True"
              /\ g_exc' = NoException
              /\ g_spawns' = g_spawns
              /\ GRADIO_PROCESS' = GRADIO_PROCESS)
       /\ (g_ret = "True" /\ g_spawns = 0)
          => (g_spawns' = 0 /\ GRADIO_PROCESS' = GRADIO_PROCESS)
       /\ (g_spawns' # g_spawns)
          => (/\ g_pc = "spawn"
              /\ g_get # "200"
              /\ g_spawns = 0
              /\ g_spawns' = 1)
       /\ (GRADIO_PROCESS = NoProcess /\ GRADIO_PROCESS' # NoProcess)
          => g_spawns' # g_spawns]_vars

C31_Witness ==
    /\ g_pc = "after_wait"
    /\ ext_up
    /\ g_get = "200"
    /\ g_ret = "True"
    /\ g_spawns = 0
    /\ GRADIO_PROCESS = NoProcess

====
